---- MODULE Spec2Model ----
(***************************************************************************)
(* The psycopg client of tortoise-orm: a pooled client (PsycopgClient),    *)
(* its lazily created connection pool, and the TransactionWrapper with its *)
(* begin/commit/rollback state machine, run by cooperative asyncio tasks.  *)
(* One action is one stretch of code between two suspension points.        *)
(***************************************************************************)
EXTENDS Integers, Sequences, FiniteSets, TLC

\* ------------------------------------------------------------ bounds
NumTasks == 2      \* concurrent top-level tasks started on one client
MaxSize == 1       \* pool max_size: connections the pool owns
NumWorkers == 2    \* statements one scope runs concurrently (asyncio.gather)
MaxCalls == 3      \* explicit begin/commit/rollback calls made by one body
NumCallers == 4    \* callers of get-or-create for one unique key
MaxCount == 2      \* largest row count and row position a cursor reports

Tasks == 1..NumTasks
Conns == 1..MaxSize
Workers == 1..NumWorkers
Depths == {1, 2}   \* 1: the wrapper of in_transaction(), 2: a nested wrapper
None == 0
Callers == 1..NumCallers
Pools == 1..(NumTasks + 1)   \* pool objects: the first and one more per lifecycle call

VARIABLES
    kind,       \* what each task runs: "op", "tx", "manual" or "off"
    target,     \* the nesting depth at which a scope issues its statements
    pc,         \* each task's position
    pool,       \* PsycopgClient._pool: None or the pool object
    poolsMade,  \* AsyncConnectionPool objects constructed so far
    createDone, \* create_connection calls that ran to completion
    locked,     \* the asyncio locks currently held
    idle,       \* the pool's idle connections
    connOf,     \* the connection each task has checked out of the pool
    acquired,   \* pool acquires granted to each task
    released,   \* pool releases made by each task
    outcome,    \* how each task ended
    depth,      \* the innermost wrapper of each task's scope
    wrapper,    \* the TransactionWrapper objects: _connection, _transaction, _finalized
    call,       \* the task's last call of begin/commit/rollback: by whom, which
    err,        \* the exception propagating out of the scope being left
    callErr,    \* the result of the body's last explicit call
    calls,      \* explicit calls the body may still make
    hcount,     \* transaction handles created by each task
    worker,     \* the statements of each scope: position, wrapper depth, connection
    native,     \* per connection, the driver's stack of open transaction blocks
    committed,  \* rows committed to the database
    table,      \* the rows stored under the unique key of get-or-create
    caller,     \* each get-or-create caller: position, created flag, row, error
    request,    \* one call of a client operation and what the driver does inside it
    response,   \* what the call's caller gets: the exception raised, the value returned
    poolState,  \* every pool object made: its state and the template it was built from
    template,   \* PsycopgClient._template
    local       \* the pool object each lifecycle call holds in a local variable

\* The state of the calls made beside the pooled scopes.
aux == <<table, caller, request, response, poolState, template, local>>

vars == <<kind, target, pc, pool, poolsMade, createDone, locked, idle, connOf,
          acquired, released, outcome, depth, wrapper, call, err, callErr, calls,
          hcount, worker, native, committed, aux>>

\* ------------------------------------------------------------ locks
\* PsycopgClient._pool_init_lock: one lock per client.
pool_init_lock == <<0, 0, 0>>

\* TransactionWrapper.__init__: self._lock = asyncio.Lock(), a lock of its own
\* for every wrapper object, the nested ones included.
WrapperLock(t, d) == <<t, d, 0>>

\* ------------------------------------------------------------ the pool
\* AsyncConnectionPool.acquire: getconn hands out an idle connection.
acquire_any(idleSet) == Conns
acquire(idleSet) == idleSet

\* AsyncConnectionPool.release: putconn returns the connection to the idle set.
release_lost(idleSet, c) == idleSet
release(idleSet, c) == idleSet \cup {c}

\* PsycopgClient.acquire_connection: PoolConnectionWrapper(self, self._pool_init_lock)
acquire_connection_own_lock(t) ==
    [context |-> "PoolConnectionWrapper", lock |-> <<t, 0, 0>>]
acquire_connection(t) ==
    [context |-> "PoolConnectionWrapper", lock |-> pool_init_lock]

\* PsycopgClient._in_transaction:
\* TransactionContextPooled(TransactionWrapper(self), self._pool_init_lock)
_in_transaction(t) ==
    [context |-> "TransactionContextPooled", lock |-> pool_init_lock]

\* The lock the task's context guards lazy pool creation with.
InitLockOf(t) ==
    IF kind[t] = "op" THEN acquire_connection(t).lock ELSE _in_transaction(t).lock

\* TransactionWrapper.__init__: a wrapper bound to the parent's connection,
\* with no transaction handle and not finalized.
TransactionWrapper(parentConnection) ==
    [connection |-> parentConnection, transaction |-> None, finalized |-> FALSE]

NoWrapper == [connection |-> None, transaction |-> None, finalized |-> FALSE]

\* ------------------------------------------------------------ exceptions
\* PsycopgClient._translate_exceptions: the except clauses in their order; an
\* exception no clause names leaves the function as it is.
_translate_exceptions_catch_all(exc) ==
    IF exc = "none" THEN "none"
    ELSE IF exc = "psycopg.errors.IntegrityError" THEN "exceptions.IntegrityError"
    ELSE IF exc \in {"psycopg.errors.InvalidTransactionState",
                     "psycopg.errors.InFailedSqlTransaction"}
    THEN "exceptions.TransactionManagementError"
    ELSE "exceptions.OperationalError"
_translate_exceptions_integrity_as_operational(exc) ==
    IF exc \in {"psycopg.errors.SyntaxErrorOrAccessRuleViolation",
                "psycopg.errors.DataException",
                "psycopg.errors.UndefinedTable",
                "psycopg.errors.IntegrityError"}
    THEN "exceptions.OperationalError"
    ELSE IF exc \in {"psycopg.errors.InvalidTransactionState",
                     "psycopg.errors.InFailedSqlTransaction"}
    THEN "exceptions.TransactionManagementError"
    ELSE exc
_translate_exceptions(exc) ==
    IF exc \in {"psycopg.errors.SyntaxErrorOrAccessRuleViolation",
                "psycopg.errors.DataException",
                "psycopg.errors.UndefinedTable"}
    THEN "exceptions.OperationalError"
    ELSE IF exc = "psycopg.errors.IntegrityError"
    THEN "exceptions.IntegrityError"
    ELSE IF exc \in {"psycopg.errors.InvalidTransactionState",
                     "psycopg.errors.InFailedSqlTransaction"}
    THEN "exceptions.TransactionManagementError"
    ELSE exc

\* The client's and the wrapper's operations that reach the driver.
Operations ==
    {"create_connection", "execute_insert", "execute_many", "execute_query",
     "execute_query_dict", "begin", "savepoint", "commit", "release_savepoint",
     "rollback", "savepoint_rollback"}

\* What the driver can raise inside an operation.
DriverErrors ==
    {"psycopg.errors.SyntaxErrorOrAccessRuleViolation",
     "psycopg.errors.DataException",
     "psycopg.errors.UndefinedTable",
     "psycopg.errors.IntegrityError",
     "psycopg.errors.InvalidTransactionState",
     "psycopg.errors.InFailedSqlTransaction",
     "psycopg.errors.InvalidCatalogName",
     "PoolTimeout",
     "psycopg.errors.OtherError"}

\* The operations defined under @postgres_client.translate_exceptions.
Decorated == {"create_connection", "execute_many", "execute_query", "begin"}

\* The method whose body does the work: execute_insert and execute_query_dict
\* call execute_query, savepoint calls begin, release_savepoint calls commit,
\* savepoint_rollback calls rollback.
Body(op) ==
    CASE op \in {"execute_insert", "execute_query_dict"} -> "execute_query"
      [] op = "savepoint" -> "begin"
      [] op = "release_savepoint" -> "commit"
      [] op = "savepoint_rollback" -> "rollback"
      [] OTHER -> op

\* create_connection: except (InvalidCatalogName, PoolTimeout): raise
\* DBConnectionError; the other bodies catch nothing.
Caught(body, exc) ==
    IF body = "create_connection" /\ exc \in {"psycopg.errors.InvalidCatalogName", "PoolTimeout"}
    THEN "exceptions.DBConnectionError"
    ELSE exc

\* The exception that leaves operation op when the driver raises exc inside
\* it ("none": nothing is raised): through the body's own except clause, and
\* through the translator when the body is decorated.
Raised(op, exc) ==
    IF Body(op) \in Decorated
    THEN _translate_exceptions(Caught(Body(op), exc))
    ELSE Caught(Body(op), exc)

\* ------------------------------------------------------------ first use
\* create_connection: if self._pool is not None: raise RuntimeError(...)
PoolAlreadyCreated == pool # None

\* PoolConnectionWrapper / TransactionContextPooled ensure_connection: under the
\* pool init lock, call create_connection if the client has no pool.
\* create_connection refuses when a pool already exists, otherwise builds the
\* pool object in create_pool and suspends in pool.open().
EnsureConnection(t) ==
    /\ pc[t] = "ensure"
    /\ InitLockOf(t) \notin locked
    /\ IF pool # None
       THEN /\ pc' = [pc EXCEPT ![t] = "acquire"]
            /\ UNCHANGED <<locked, poolsMade, outcome>>
       ELSE IF PoolAlreadyCreated
       THEN /\ outcome' = [outcome EXCEPT ![t] = "RuntimeError"]
            /\ pc' = [pc EXCEPT ![t] = "done"]
            /\ UNCHANGED <<locked, poolsMade>>
       ELSE /\ locked' = locked \cup {InitLockOf(t)}
            /\ poolsMade' = poolsMade + 1
            /\ pc' = [pc EXCEPT ![t] = "create_pool"]
            /\ UNCHANGED outcome
    /\ UNCHANGED <<aux, kind, target, pool, createDone, idle, connOf, acquired, released,
                   depth, wrapper, call, err, callErr, calls, hcount,
                   worker, native, committed>>

\* create_connection: self._pool = await self.create_pool(**self._template),
\* a pool of MaxSize connections, none checked out; then it suspends in
\* self._pool.open(wait=True, timeout=...).
CreatePoolReturn(t) ==
    /\ pc[t] = "create_pool"
    /\ pool' = poolsMade
    /\ idle' = Conns
    /\ pc' = [pc EXCEPT ![t] = "open_wait"]
    /\ UNCHANGED <<aux, kind, target, poolsMade, createDone, locked, connOf,
                   acquired, released, outcome, depth, wrapper, call, err, callErr,
                   calls, hcount, worker, native, committed>>

\* create_connection returns; the context leaves the pool init lock.
OpenReturn(t) ==
    /\ pc[t] = "open_wait"
    /\ createDone' = createDone + 1
    /\ locked' = locked \ {InitLockOf(t)}
    /\ pc' = [pc EXCEPT ![t] = "acquire"]
    /\ UNCHANGED <<aux, kind, target, pool, poolsMade, idle, connOf, acquired, released,
                   outcome, depth, wrapper, call, err, callErr, calls, hcount,
                   worker, native, committed>>

\* ------------------------------------------------------------ the driver
Top(s) == s[Len(s)]
Front(s) == SubSeq(s, 1, Len(s) - 1)

\* connection.transaction().__aenter__: BEGIN, or SAVEPOINT inside a block.
NativeEnter(s, h) == Append(s, [h |-> h, rows |-> 0])

\* Leaving the innermost block without an exception: its rows join the
\* enclosing block, or are committed when it is the outermost one.
NativeCommit(s) ==
    LET rows == Top(s).rows
        rest == Front(s)
    IN  IF Len(rest) = 0
        THEN [stack |-> rest, out |-> rows]
        ELSE [stack |-> [rest EXCEPT ![Len(rest)].rows = @ + rows], out |-> 0]

\* Leaving the innermost block with psycopg.Rollback: its rows are dropped.
NativeRollback(s) == [stack |-> Front(s), out |-> 0]

\* A statement that succeeds adds its row to the innermost open block; on a
\* connection with no open block (autocommit=True) the row is committed.
StatementOn(c) ==
    IF Len(native[c]) = 0
    THEN /\ committed' = committed + 1
         /\ UNCHANGED native
    ELSE /\ native' = [native EXCEPT ![c][Len(native[c])].rows = @ + 1]
         /\ UNCHANGED committed

\* ------------------------------------------------------------ top-level operations
\* execute_query / execute_many: the statement runs inside
\* "async with self.acquire_connection()", which is left through __aexit__
\* whether the statement returns, raises or is cancelled.
execute_query_only_on_success(result) == result = "ok"
execute_query_leaves_scope(result) == result \in {"ok", "raised", "cancelled"}

\* await cursor.execute(query, values) ends.
OpExecReturn(t) ==
    /\ pc[t] = "exec"
    /\ \E result \in {"ok", "raised", "cancelled"} :
        /\ outcome' = [outcome EXCEPT ![t] = result]
        /\ IF result = "ok"
           THEN StatementOn(connOf[t])
           ELSE UNCHANGED <<native, committed>>
        /\ pc' = [pc EXCEPT ![t] =
                    IF execute_query_leaves_scope(result) THEN "release" ELSE "done"]
    /\ UNCHANGED <<aux, kind, target, pool, poolsMade, createDone, locked, idle, connOf,
                   acquired, released, depth, wrapper, call, err, callErr, calls,
                   hcount, worker>>

\* PoolConnectionWrapper.__aexit__: await self.client._pool.release(connection).
OpRelease(t) ==
    /\ pc[t] = "release"
    /\ idle' = release(idle, connOf[t])
    /\ released' = [released EXCEPT ![t] = @ + 1]
    /\ connOf' = [connOf EXCEPT ![t] = None]
    /\ pc' = [pc EXCEPT ![t] = "done"]
    /\ UNCHANGED <<aux, kind, target, pool, poolsMade, createDone, locked, acquired,
                   outcome, depth, wrapper, call, err, callErr, calls, hcount,
                   worker, native, committed>>

\* ------------------------------------------------------------ TransactionWrapper
\* TransactionWrapper._in_transaction: NestedTransactionContext(TransactionWrapper(self)),
\* a new wrapper on the same connection and no pool checkout.
TransactionWrapper_in_transaction_pooled(t) ==
    [context |-> "TransactionContextPooled", lock |-> pool_init_lock]
TransactionWrapper_in_transaction(t) ==
    [context |-> "NestedTransactionContext", lock |-> None]

\* TransactionWrapper.acquire_connection: ConnectionWrapper(self._lock, self),
\* for statement j issued through the wrapper at depth d of task t.
TransactionWrapper_acquire_connection_new_lock(t, d, j) ==
    [context |-> "ConnectionWrapper", lock |-> <<t, d, j>>]
TransactionWrapper_acquire_connection(t, d, j) ==
    [context |-> "ConnectionWrapper", lock |-> WrapperLock(t, d)]

\* TransactionWrapper.begin up to its await:
\* self._transaction = self._connection.transaction()
begin(w, h) == [w EXCEPT !.transaction = h]

\* TransactionWrapper.commit: the two checks made before the driver is called.
commit_check_transaction_only(w) ==
    IF w.transaction = None THEN "Transaction is in invalid state" ELSE "pass"
commit_check(w) ==
    IF w.transaction = None THEN "Transaction is in invalid state"
    ELSE IF w.finalized THEN "Transaction already finalised"
    ELSE "pass"

\* TransactionWrapper.rollback: the same two checks.
rollback_check(w) ==
    IF w.transaction = None THEN "Transaction is in invalid state"
    ELSE IF w.finalized THEN "Transaction already finalised"
    ELSE "pass"

\* TransactionWrapper.commit: await self._transaction.__aexit__(None, None, None)
commit_aexit_rolls_back(s) == NativeRollback(s)
commit_aexit(s) == NativeCommit(s)

\* TransactionWrapper.rollback:
\* await self._transaction.__aexit__(psycopg.Rollback, psycopg.Rollback(), None)
rollback_aexit(s) == NativeRollback(s)

\* commit / rollback after their await: self._finalized = True
finalize(w) == [w EXCEPT !.finalized = TRUE]

W(t) == wrapper[t][depth[t]]
Handle(t) == <<t, W(t).transaction>>
IsInnermost(c, h) == Len(native[c]) > 0 /\ Top(native[c]).h = h

\* ------------------------------------------------------------ checkout
\* __aenter__ of both contexts: await self._pool.acquire().  A top-level
\* operation goes on to its statement; TransactionContextPooled binds the
\* connection to the wrapper and calls begin(), which suspends in
\* self._transaction.__aenter__().
PoolAcquire(t) ==
    /\ pc[t] = "acquire"
    /\ \E c \in acquire(idle) :
        /\ idle' = idle \ {c}
        /\ connOf' = [connOf EXCEPT ![t] = c]
        /\ acquired' = [acquired EXCEPT ![t] = @ + 1]
        /\ IF kind[t] = "op"
           THEN /\ pc' = [pc EXCEPT ![t] = "exec"]
                /\ UNCHANGED <<wrapper, hcount, call>>
           ELSE /\ pc' = [pc EXCEPT ![t] = "begin_wait"]
                /\ wrapper' = [wrapper EXCEPT ![t][depth[t]] =
                                  begin([@ EXCEPT !.connection = c], hcount[t] + 1)]
                /\ hcount' = [hcount EXCEPT ![t] = @ + 1]
                /\ call' = [call EXCEPT ![t] = [by |-> "enter", op |-> "begin"]]
    /\ UNCHANGED <<aux, kind, target, pool, poolsMade, createDone, locked, released,
                   outcome, depth, err, callErr, calls, worker, native, committed>>

\* getconn with every connection checked out: the caller stays suspended, or
\* the timeout elapses and getconn raises PoolTimeout, inside execute_query
\* for a top-level operation and in the context's __aenter__ for a scope.
PoolAcquireTimeout(t) ==
    /\ pc[t] = "acquire"
    /\ acquire(idle) = {}
    /\ outcome' = [outcome EXCEPT ![t] =
                      IF kind[t] = "op" THEN Raised("execute_query", "PoolTimeout")
                      ELSE "PoolTimeout"]
    /\ pc' = [pc EXCEPT ![t] = "done"]
    /\ UNCHANGED <<aux, kind, target, pool, poolsMade, createDone, locked, idle, connOf,
                   acquired, released, depth, wrapper, call, err, callErr, calls,
                   hcount, worker, native, committed>>

\* ------------------------------------------------------------ begin, commit, rollback
\* __aenter__ of the transaction block returns: the driver has opened the
\* block on the connection (BEGIN, or a savepoint), and the body runs.
BeginReturn(t) ==
    /\ pc[t] = "begin_wait"
    /\ native' = [native EXCEPT ![W(t).connection] = NativeEnter(@, Handle(t))]
    /\ pc' = [pc EXCEPT ![t] = "body"]
    /\ callErr' = [callErr EXCEPT ![t] = IF call[t].by = "body" THEN "returned" ELSE @]
    /\ UNCHANGED <<aux, kind, target, pool, poolsMade, createDone, locked, idle, connOf,
                   acquired, released, outcome, depth, wrapper, call, err, calls,
                   hcount, worker, committed>>

\* What follows a commit() or rollback() that ended with exception e ("none":
\* it returned) while exception prop was leaving the body.  A call made by the
\* body is caught by the body.  A call made by the context's __aexit__ ends
\* the scope: NestedTransactionContext goes back to the enclosing body, where
\* the exception goes on; TransactionContextPooled returns the connection to
\* the pool on every path and the task ends.
Leave(t, by, e, prop) ==
    LET raised == IF e # "none" THEN e ELSE prop
    IN  IF by = "body"
        THEN /\ callErr' = [callErr EXCEPT ![t] = IF e = "none" THEN "returned" ELSE e]
             /\ pc' = [pc EXCEPT ![t] = "body"]
             /\ UNCHANGED <<depth, err, idle, released, connOf, outcome>>
        ELSE /\ err' = [err EXCEPT ![t] = raised]
             /\ UNCHANGED callErr
             /\ IF depth[t] > 1
                THEN /\ depth' = [depth EXCEPT ![t] = @ - 1]
                     /\ pc' = [pc EXCEPT ![t] = "body"]
                     /\ UNCHANGED <<idle, released, connOf, outcome>>
                ELSE /\ idle' = release(idle, W(t).connection)
                     /\ released' = [released EXCEPT ![t] = @ + 1]
                     /\ connOf' = [connOf EXCEPT ![t] = None]
                     /\ outcome' = [outcome EXCEPT ![t] =
                                       IF raised = "none" THEN "ok" ELSE raised]
                     /\ pc' = [pc EXCEPT ![t] = "done"]
                     /\ UNCHANGED depth

\* commit() or rollback() up to its await: the checks raise
\* TransactionManagementError, or the call suspends in __aexit__.
Finalize(t, by, op, prop) ==
    /\ call' = [call EXCEPT ![t] = [by |-> by, op |-> op]]
    /\ IF (IF op = "commit" THEN commit_check(W(t)) ELSE rollback_check(W(t))) # "pass"
       THEN Leave(t, by, "TransactionManagementError", prop)
       ELSE /\ pc' = [pc EXCEPT ![t] = IF op = "commit" THEN "commit_wait" ELSE "rollback_wait"]
            /\ err' = [err EXCEPT ![t] = prop]
            /\ UNCHANGED <<depth, callErr, idle, released, connOf, outcome>>

\* __aexit__(None, None, None) ends: the driver committed the block and
\* self._finalized = True runs, or the driver raised (the block is gone, its
\* rows with it) and the exception leaves commit() before that line.  A block
\* that is not the innermost one of its connection is refused by the driver.
CommitReturn(t) ==
    /\ pc[t] = "commit_wait"
    /\ LET c == W(t).connection
       IN \E result \in {"ok", "raise"} :
           /\ result = "ok" => IsInnermost(c, Handle(t))
           /\ IF result = "ok"
              THEN /\ native' = [native EXCEPT ![c] = commit_aexit(@).stack]
                   /\ committed' = committed + commit_aexit(native[c]).out
                   /\ wrapper' = [wrapper EXCEPT ![t][depth[t]] = finalize(@)]
                   /\ Leave(t, call[t].by, "none", err[t])
              ELSE /\ native' = IF IsInnermost(c, Handle(t))
                                THEN [native EXCEPT ![c] = Front(@)]
                                ELSE native
                   /\ Leave(t, call[t].by, "DriverError", err[t])
                   /\ UNCHANGED <<committed, wrapper>>
    /\ UNCHANGED <<aux, kind, target, pool, poolsMade, createDone, locked, acquired,
                   call, calls, hcount, worker>>

\* __aexit__(psycopg.Rollback, ...) ends: the block is rolled back and
\* self._finalized = True runs, or the driver raised before that line.
RollbackReturn(t) ==
    /\ pc[t] = "rollback_wait"
    /\ LET c == W(t).connection
       IN \E result \in {"ok", "raise"} :
           /\ result = "ok" => IsInnermost(c, Handle(t))
           /\ native' = IF IsInnermost(c, Handle(t))
                        THEN [native EXCEPT ![c] = rollback_aexit(@).stack]
                        ELSE native
           /\ IF result = "ok"
              THEN /\ wrapper' = [wrapper EXCEPT ![t][depth[t]] = finalize(@)]
                   /\ Leave(t, call[t].by, "none", err[t])
              ELSE /\ Leave(t, call[t].by, "DriverError", err[t])
                   /\ UNCHANGED wrapper
    /\ UNCHANGED <<aux, kind, target, pool, poolsMade, createDone, locked, acquired,
                   call, calls, hcount, worker, committed>>

\* ------------------------------------------------------------ the scope's body
\* asyncio.gather in the body: k statements are issued at once through the
\* current wrapper, each a task of its own that queues on the lock of
\* TransactionWrapper.acquire_connection.  A scope with a set target issues
\* all its statements in one gather, at that depth.
IdleWorkers(t) == {j \in Workers : worker[t][j].pc = "idle"}

Gather(t) ==
    /\ pc[t] = "body"
    /\ err[t] = "none"
    /\ target[t] \in {0, depth[t]}
    /\ \E k \in 1..Cardinality(IdleWorkers(t)) :
        /\ target[t] # 0 => k = NumWorkers
        /\ LET first == NumWorkers - Cardinality(IdleWorkers(t)) + 1
           IN worker' = [worker EXCEPT ![t] =
                  [j \in Workers |->
                      IF j >= first /\ j < first + k
                      THEN [pc |-> "lock_wait", d |-> depth[t], conn |-> None]
                      ELSE @[j]]]
    /\ UNCHANGED <<aux, kind, target, pc, pool, poolsMade, createDone, locked, idle, connOf,
                   acquired, released, outcome, depth, wrapper, call, err, callErr,
                   calls, hcount, native, committed>>

\* asyncio.Lock wakes its waiters first come, first served; the statements of
\* a body queue in the order of their index.
Queued(t, i, lock) ==
    /\ worker[t][i].pc = "lock_wait"
    /\ TransactionWrapper_acquire_connection(t, worker[t][i].d, i).lock = lock

\* ConnectionWrapper.__aenter__: await self._lock.acquire(), then the
\* statement runs on the wrapper's connection.
WorkerLock(t, j) ==
    LET w == worker[t][j]
        lock == TransactionWrapper_acquire_connection(t, w.d, j).lock
    IN  /\ w.pc = "lock_wait"
        /\ lock \notin locked
        /\ \A i \in Workers : i < j => ~Queued(t, i, lock)
        /\ locked' = locked \cup {lock}
        /\ worker' = [worker EXCEPT ![t][j].pc = "exec",
                                    ![t][j].conn = wrapper[t][w.d].connection]
        /\ UNCHANGED <<aux, kind, target, pc, pool, poolsMade, createDone, idle, connOf,
                       acquired, released, outcome, depth, wrapper, call, err, callErr,
                       calls, hcount, native, committed>>

\* The statement ends with its row, and ConnectionWrapper.__aexit__ releases
\* the lock.
WorkerExecReturn(t, j) ==
    LET w == worker[t][j]
        lock == TransactionWrapper_acquire_connection(t, w.d, j).lock
    IN  /\ w.pc = "exec"
        /\ worker' = [worker EXCEPT ![t][j].pc = "done"]
        /\ StatementOn(w.conn)
        /\ locked' = locked \ {lock}
        /\ UNCHANGED <<aux, kind, target, pc, pool, poolsMade, createDone, idle, connOf,
                       acquired, released, outcome, depth, wrapper, call, err, callErr,
                       calls, hcount>>

\* The statement ends with an exception: no row, and
\* ConnectionWrapper.__aexit__ releases the lock all the same.
WorkerExecRaise(t, j) ==
    LET w == worker[t][j]
        lock == TransactionWrapper_acquire_connection(t, w.d, j).lock
    IN  /\ w.pc = "exec"
        /\ worker' = [worker EXCEPT ![t][j].pc = "failed"]
        /\ locked' = locked \ {lock}
        /\ UNCHANGED <<aux, kind, target, pc, pool, poolsMade, createDone, idle, connOf,
                       acquired, released, outcome, depth, wrapper, call, err, callErr,
                       calls, hcount, native, committed>>

\* in_transaction() inside a scope: the current wrapper's _in_transaction()
\* makes the nested wrapper, and the context's __aenter__ calls savepoint(),
\* which is begin().
EnterNested(t) ==
    /\ pc[t] = "body"
    /\ err[t] = "none"
    /\ depth[t] + 1 \in Depths
    /\ target[t] = 0 \/ target[t] > depth[t]
    /\ wrapper[t][depth[t] + 1] = NoWrapper
    /\ depth' = [depth EXCEPT ![t] = @ + 1]
    /\ IF TransactionWrapper_in_transaction(t).context = "NestedTransactionContext"
       THEN /\ wrapper' = [wrapper EXCEPT ![t][depth[t] + 1] =
                              begin(TransactionWrapper(W(t).connection), hcount[t] + 1)]
            /\ hcount' = [hcount EXCEPT ![t] = @ + 1]
            /\ call' = [call EXCEPT ![t] = [by |-> "enter", op |-> "begin"]]
            /\ pc' = [pc EXCEPT ![t] = "begin_wait"]
       ELSE /\ wrapper' = [wrapper EXCEPT ![t][depth[t] + 1] = TransactionWrapper(None)]
            /\ pc' = [pc EXCEPT ![t] = "acquire"]
            /\ UNCHANGED <<hcount, call>>
    /\ UNCHANGED <<aux, kind, target, pool, poolsMade, createDone, locked, idle, connOf,
                   acquired, released, outcome, err, callErr, calls, worker, native,
                   committed>>

\* The body calls begin(), commit() or rollback() on the current wrapper itself.
ExplicitCall(t) ==
    /\ pc[t] = "body"
    /\ err[t] = "none"
    /\ calls[t] > 0
    /\ calls' = [calls EXCEPT ![t] = @ - 1]
    /\ \E op \in {"begin", "commit", "rollback"} :
        IF op = "begin"
        THEN /\ wrapper' = [wrapper EXCEPT ![t][depth[t]] = begin(@, hcount[t] + 1)]
             /\ hcount' = [hcount EXCEPT ![t] = @ + 1]
             /\ call' = [call EXCEPT ![t] = [by |-> "body", op |-> "begin"]]
             /\ pc' = [pc EXCEPT ![t] = "begin_wait"]
             /\ UNCHANGED <<depth, err, callErr, idle, released, connOf, outcome>>
        ELSE /\ Finalize(t, "body", op, err[t])
             /\ UNCHANGED <<wrapper, hcount>>
    /\ UNCHANGED <<aux, kind, target, pool, poolsMade, createDone, locked, acquired,
                   worker, native, committed>>

Running(t, d) == {j \in Workers : worker[t][j].d = d /\ worker[t][j].pc \in {"lock_wait", "exec"}}
Failed(t, d) == {j \in Workers : worker[t][j].d = d /\ worker[t][j].pc = "failed"}

\* The body of the scope ends, once the statements it gathered have ended, and
\* the context's __aexit__ runs: commit() on a normal exit (release_savepoint()
\* for a nested scope), rollback() on an exception (savepoint_rollback()).
\* A failed statement and a failed nested scope raise in the body.
ExitBody(t) ==
    /\ pc[t] = "body"
    /\ kind[t] = "tx" \/ depth[t] > 1
    /\ Running(t, depth[t]) = {}
    /\ \E how \in {"normal", "raise"} :
        /\ how = "normal" => err[t] = "none" /\ Failed(t, depth[t]) = {}
        /\ Finalize(t, "exit", IF how = "normal" THEN "commit" ELSE "rollback",
                    IF how = "raise" /\ err[t] = "none" THEN "BodyError" ELSE err[t])
    /\ UNCHANGED <<aux, kind, target, pool, poolsMade, createDone, locked, acquired,
                   wrapper, calls, hcount, worker, native, committed>>

\* ------------------------------------------------------------ calls of one operation
\* The variables of the pooled client, its scopes and the driver.
clientVars == <<kind, target, pc, pool, poolsMade, createDone, locked, idle, connOf,
                acquired, released, outcome, depth, wrapper, call, err, callErr,
                calls, hcount, worker, native, committed>>

lifeVars == <<poolState, template, local>>

\* The other variables of the pooled client: its scopes, locks and driver.
scopeVars == <<target, createDone, locked, idle, connOf, acquired, released, depth,
               wrapper, call, err, callErr, calls, hcount, worker, native, committed>>

callVars == <<table, caller, request, response>>

\* A pool object not constructed yet, and one constructed from a template.
NoPool == [state |-> "unmade", template |-> FALSE, closes |-> 0]
NewPool(tmpl) == [state |-> "opening", template |-> tmpl, closes |-> 0]

\* The pool objects are followed one by one only where pools are closed and
\* replaced; elsewhere none is.
LifeIdle ==
    /\ poolState = [q \in Pools |-> NoPool]
    /\ template = TRUE
    /\ local = [t \in Tasks |-> None]

\* pool.close() is called on a pool object, and returns.
CloseBegin(st) == IF st.state = "closed" THEN st ELSE [st EXCEPT !.state = "closing"]
CloseEnd(st) == [st EXCEPT !.state = "closed"]

\* _close: pool = self._pool; self._pool = None, before pool.close(10).
_close_reference_kept(p) == p
_close_reference(p) == None

\* _close up to its await: nothing to do without a pool, else the reference
\* is set to None and the pool's close is awaited.
CloseCall(t) ==
    /\ pc[t] = "start"
    /\ kind[t] = "close"
    /\ IF pool # None
       THEN /\ local' = [local EXCEPT ![t] = pool]
            /\ pool' = _close_reference(pool)
            /\ poolState' = [poolState EXCEPT ![pool] =
                                [CloseBegin(@) EXCEPT !.closes = @ + 1]]
            /\ pc' = [pc EXCEPT ![t] = "close_wait"]
            /\ UNCHANGED outcome
       ELSE /\ pc' = [pc EXCEPT ![t] = "done"]
            /\ outcome' = [outcome EXCEPT ![t] = "ok"]
            /\ UNCHANGED <<local, pool, poolState>>
    /\ UNCHANGED <<kind, poolsMade, template, callVars, scopeVars>>

\* await pool.close(10) returns.
CloseReturn(t) ==
    /\ pc[t] = "close_wait"
    /\ poolState' = [poolState EXCEPT ![local[t]] = CloseEnd(@)]
    /\ pc' = [pc EXCEPT ![t] = "done"]
    /\ outcome' = [outcome EXCEPT ![t] = "ok"]
    /\ UNCHANGED <<kind, pool, poolsMade, template, local, callVars, scopeVars>>

\* _expire_connections up to its first await: await self._pool.close(), the
\* reference still designating the pool.
ExpireCall(t) ==
    /\ pc[t] = "start"
    /\ kind[t] = "expire"
    /\ IF pool # None
       THEN /\ local' = [local EXCEPT ![t] = pool]
            /\ poolState' = [poolState EXCEPT ![pool] = CloseBegin(@)]
            /\ pc' = [pc EXCEPT ![t] = "expire_close_wait"]
            /\ UNCHANGED outcome
       ELSE /\ pc' = [pc EXCEPT ![t] = "done"]
            /\ outcome' = [outcome EXCEPT ![t] = "ok"]
            /\ UNCHANGED <<local, poolState>>
    /\ UNCHANGED <<kind, pool, poolsMade, template, callVars, scopeVars>>

\* The close returns and create_pool(**self._template) constructs the new
\* pool object and awaits its open().
ExpireCloseReturn(t) ==
    /\ pc[t] = "expire_close_wait"
    /\ poolsMade' = poolsMade + 1
    /\ poolState' = [poolState EXCEPT ![local[t]] = CloseEnd(@),
                                      ![poolsMade + 1] = NewPool(template)]
    /\ local' = [local EXCEPT ![t] = poolsMade + 1]
    /\ pc' = [pc EXCEPT ![t] = "expire_pool_wait"]
    /\ UNCHANGED <<kind, pool, outcome, template, callVars, scopeVars>>

\* create_pool returns the open pool: self._pool = <the new pool>.
ExpireCreateReturn(t) ==
    /\ pc[t] = "expire_pool_wait"
    /\ poolState' = [poolState EXCEPT ![local[t]].state = "open"]
    /\ pool' = local[t]
    /\ pc' = [pc EXCEPT ![t] = "done"]
    /\ outcome' = [outcome EXCEPT ![t] = "ok"]
    /\ UNCHANGED <<kind, poolsMade, template, local, callVars, scopeVars>>

\* create_connection called on the client: it refuses when a pool exists,
\* else stores the template built from its arguments and, inside the try,
\* create_pool constructs the pool object and awaits its open().
CreateConnectionCall(t) ==
    /\ pc[t] = "start"
    /\ kind[t] = "create"
    /\ IF PoolAlreadyCreated
       THEN /\ outcome' = [outcome EXCEPT ![t] = Raised("create_connection", "RuntimeError")]
            /\ pc' = [pc EXCEPT ![t] = "done"]
            /\ UNCHANGED <<poolsMade, poolState, template, local>>
       ELSE /\ \E with_db \in BOOLEAN :
                /\ template' = with_db
                /\ poolState' = [poolState EXCEPT ![poolsMade + 1] = NewPool(with_db)]
            /\ poolsMade' = poolsMade + 1
            /\ local' = [local EXCEPT ![t] = poolsMade + 1]
            /\ pc' = [pc EXCEPT ![t] = "create_pool_wait"]
            /\ UNCHANGED outcome
    /\ UNCHANGED <<kind, pool, callVars, scopeVars>>

\* create_pool returns and self._pool is assigned, then
\* self._pool.open(wait=True, timeout=...) is awaited; or create_pool raises
\* and the except clause answers with DBConnectionError.
CreateConnectionPoolReturn(t) ==
    /\ pc[t] = "create_pool_wait"
    /\ \E exc \in {"none", "psycopg.errors.InvalidCatalogName", "PoolTimeout"} :
        IF exc = "none"
        THEN /\ pool' = local[t]
             /\ pc' = [pc EXCEPT ![t] = "create_open_wait"]
             /\ UNCHANGED <<outcome, poolState>>
        ELSE /\ poolState' = [poolState EXCEPT ![local[t]].state = "failed"]
             /\ outcome' = [outcome EXCEPT ![t] = Raised("create_connection", exc)]
             /\ pc' = [pc EXCEPT ![t] = "done"]
             /\ UNCHANGED pool
    /\ UNCHANGED <<kind, poolsMade, template, local, callVars, scopeVars>>

\* open(wait=True) returns and create_connection is done; or it raises and
\* the except clause answers with DBConnectionError, self._pool staying as
\* line 99 assigned it.
CreateConnectionOpenReturn(t) ==
    /\ pc[t] = "create_open_wait"
    /\ \E exc \in {"none", "psycopg.errors.InvalidCatalogName", "PoolTimeout"} :
        IF exc = "none"
        THEN /\ poolState' = [poolState EXCEPT ![local[t]].state =
                                 IF @ = "opening" THEN "open" ELSE @]
             /\ outcome' = [outcome EXCEPT ![t] = "ok"]
        ELSE /\ poolState' = [poolState EXCEPT ![local[t]].state =
                                 IF @ = "opening" THEN "failed" ELSE @]
             /\ outcome' = [outcome EXCEPT ![t] = Raised("create_connection", exc)]
    /\ pc' = [pc EXCEPT ![t] = "done"]
    /\ UNCHANGED <<kind, pool, poolsMade, template, local, callVars, scopeVars>>

\* Python's "a or b" on optional integers (<<>> is None): a when a is truthy.
PyOr(a, b) == IF a # <<>> /\ a[1] # 0 THEN a ELSE b

\* execute_query: rowcount = int(cursor.rowcount or cursor.rownumber or 0)
execute_query_rowcount(rowcount, rownumber) ==
    PyOr(PyOr(<<rowcount>>, rownumber), <<0>>)[1]

NoRequest == [op |-> "none", exc |-> "none", rowcount |-> 0, rownumber |-> <<>>]
NoResponse == [state |-> "pending", raised |-> "none", value |-> <<>>]

\* The call ends with an exception.
CallRaise ==
    /\ response.state = "pending"
    /\ request.op \in Operations
    /\ request.exc # "none"
    /\ response' = [state |-> "raised", raised |-> Raised(request.op, request.exc),
                    value |-> <<>>]
    /\ UNCHANGED <<request, table, caller, lifeVars, clientVars>>

\* The call returns: execute_query its row count, the translator passing the
\* value on as it is.
CallReturn ==
    /\ response.state = "pending"
    /\ request.op \in Operations
    /\ request.exc = "none"
    /\ response' = [state |-> "returned", raised |-> Raised(request.op, "none"),
                    value |-> IF request.op = "execute_query"
                              THEN <<execute_query_rowcount(request.rowcount, request.rownumber)>>
                              ELSE <<>>]
    /\ UNCHANGED <<request, table, caller, lifeVars, clientVars>>

\* ------------------------------------------------------------ get or create
\* The storage layer's uniqueness constraint: an INSERT under a key that has a
\* row is refused with the driver's integrity error.
Insert(rows, n) ==
    IF rows = {}
    THEN [rows |-> {n}, exc |-> "none"]
    ELSE [rows |-> rows, exc |-> "psycopg.errors.IntegrityError"]

\* A caller told to run after the one before it starts when that one ended.
GocStart(n) ==
    /\ caller[n].pc = "queued"
    /\ n > 1 => caller[n - 1].pc \in {"done", "failed"}
    /\ caller' = [caller EXCEPT ![n].pc = "get"]
    /\ UNCHANGED <<table, request, response, lifeVars, clientVars>>

\* get-or-create, the fetch: the row when there is one, else go on to create.
GocGet(n) ==
    /\ caller[n].pc = "get"
    /\ IF table # {}
       THEN caller' = [caller EXCEPT ![n] =
                [@ EXCEPT !.pc = "done", !.row = CHOOSE r \in table : TRUE]]
       ELSE caller' = [caller EXCEPT ![n].pc = "create"]
    /\ UNCHANGED <<table, request, response, lifeVars, clientVars>>

\* get-or-create, the create: execute_insert passes the driver's error through
\* the translator; an IntegrityError is answered with a second fetch, any
\* other error leaves get-or-create.
GocCreate(n) ==
    /\ caller[n].pc = "create"
    /\ LET ins == Insert(table, n)
           seen == _translate_exceptions(ins.exc)
       IN  /\ table' = ins.rows
           /\ caller' = [caller EXCEPT ![n] =
                 IF seen = "none"
                 THEN [@ EXCEPT !.pc = "done", !.created = TRUE, !.row = n]
                 ELSE IF seen = "exceptions.IntegrityError"
                 THEN [@ EXCEPT !.pc = "refetch"]
                 ELSE [@ EXCEPT !.pc = "failed", !.error = seen]]
    /\ UNCHANGED <<request, response, lifeVars, clientVars>>

\* get-or-create, the fetch after the IntegrityError: the row that won.
GocRefetch(n) ==
    /\ caller[n].pc = "refetch"
    /\ table # {}
    /\ caller' = [caller EXCEPT ![n] =
            [@ EXCEPT !.pc = "done", !.row = CHOOSE r \in table : TRUE]]
    /\ UNCHANGED <<table, request, response, lifeVars, clientVars>>

\* ------------------------------------------------------------ specifications
\* No call is being made beside the pooled scopes.
AuxIdle ==
    /\ table = {}
    /\ caller = [n \in Callers |-> [pc |-> "off", created |-> FALSE, row |-> None, error |-> "none"]]
    /\ request = NoRequest
    /\ response = NoResponse
    /\ LifeIdle

IdleWorker == [pc |-> "idle", d |-> 0, conn |-> None]

\* A client constructed but never used (its pool is None) and the tasks about
\* to use it for the first time.
Start(kinds, targets, budget) ==
    /\ kind = kinds
    /\ target = targets
    /\ pc = [t \in Tasks |-> IF kinds[t] = "off" THEN "done" ELSE "ensure"]
    /\ pool = None
    /\ poolsMade = 0
    /\ createDone = 0
    /\ locked = {}
    /\ idle = {}
    /\ connOf = [t \in Tasks |-> None]
    /\ acquired = [t \in Tasks |-> 0]
    /\ released = [t \in Tasks |-> 0]
    /\ outcome = [t \in Tasks |-> "none"]
    /\ depth = [t \in Tasks |-> IF kinds[t] = "tx" THEN 1 ELSE 0]
    /\ wrapper = [t \in Tasks |-> [d \in Depths |-> TransactionWrapper(None)]]
    /\ call = [t \in Tasks |-> [by |-> "none", op |-> "none"]]
    /\ err = [t \in Tasks |-> "none"]
    /\ callErr = [t \in Tasks |-> "none"]
    /\ calls = [t \in Tasks |-> IF kinds[t] = "tx" THEN budget ELSE 0]
    /\ hcount = [t \in Tasks |-> 0]
    /\ worker = [t \in Tasks |-> [j \in Workers |-> IdleWorker]]
    /\ native = [c \in Conns |-> <<>>]
    /\ committed = 0
    /\ AuxIdle

\* Top-level operations and transaction scopes racing on one client.
Init ==
    \E kinds \in [Tasks -> {"op", "tx"}] :
        Start(kinds, [t \in Tasks |-> 1], 0)

Next ==
    \E t \in Tasks :
        \/ EnsureConnection(t)
        \/ CreatePoolReturn(t)
        \/ OpenReturn(t)
        \/ PoolAcquire(t)
        \/ PoolAcquireTimeout(t)
        \/ OpExecReturn(t)
        \/ OpRelease(t)
        \/ BeginReturn(t)
        \/ ExitBody(t)
        \/ CommitReturn(t)
        \/ RollbackReturn(t)

Spec == Init /\ [][Next]_vars

\* Concurrent scopes, each gathering its statements directly or inside one
\* nested scope.
InitBatch ==
    \E d \in Depths :
        Start([t \in Tasks |-> "tx"], [t \in Tasks |-> d], 0)

NextBatch ==
    \E t \in Tasks :
        \/ EnsureConnection(t)
        \/ CreatePoolReturn(t)
        \/ OpenReturn(t)
        \/ PoolAcquire(t)
        \/ PoolAcquireTimeout(t)
        \/ BeginReturn(t)
        \/ EnterNested(t)
        \/ Gather(t)
        \/ \E j \in Workers : WorkerLock(t, j)
        \/ \E j \in Workers : WorkerExecReturn(t, j)
        \/ ExitBody(t)
        \/ CommitReturn(t)
        \/ RollbackReturn(t)

SpecBatch == InitBatch /\ [][NextBatch]_vars

\* The event loop keeps running: while some task can take a step, a step is
\* taken (a scope waiting for the pool is given a connection or its getconn
\* times out, the driver answers every call).
FairSpecBatch == SpecBatch /\ WF_vars(NextBatch)

\* A TransactionWrapper driven by hand: task 1 made the wrapper, bound it to
\* connection 1 of the open pool and has called nothing on it yet.
InitManual ==
    /\ kind = [t \in Tasks |-> IF t = 1 THEN "manual" ELSE "off"]
    /\ target = [t \in Tasks |-> 0]
    /\ pc = [t \in Tasks |-> IF t = 1 THEN "body" ELSE "done"]
    /\ pool = 1
    /\ poolsMade = 1
    /\ createDone = 1
    /\ locked = {}
    /\ idle = Conns \ {1}
    /\ connOf = [t \in Tasks |-> IF t = 1 THEN 1 ELSE None]
    /\ acquired = [t \in Tasks |-> IF t = 1 THEN 1 ELSE 0]
    /\ released = [t \in Tasks |-> 0]
    /\ outcome = [t \in Tasks |-> "none"]
    /\ depth = [t \in Tasks |-> IF t = 1 THEN 1 ELSE 0]
    /\ wrapper = [t \in Tasks |-> [d \in Depths |->
                     IF t = 1 /\ d = 1 THEN TransactionWrapper(1) ELSE TransactionWrapper(None)]]
    /\ call = [t \in Tasks |-> [by |-> "none", op |-> "none"]]
    /\ err = [t \in Tasks |-> "none"]
    /\ callErr = [t \in Tasks |-> "none"]
    /\ calls = [t \in Tasks |-> IF t = 1 THEN MaxCalls ELSE 0]
    /\ hcount = [t \in Tasks |-> 0]
    /\ worker = [t \in Tasks |-> [j \in Workers |-> IdleWorker]]
    /\ native = [c \in Conns |-> <<>>]
    /\ committed = 0
    /\ AuxIdle

NextManual ==
    \E t \in Tasks :
        \/ ExplicitCall(t)
        \/ BeginReturn(t)
        \/ CommitReturn(t)
        \/ RollbackReturn(t)
        \/ EnterNested(t)
        \/ ExitBody(t)
        \/ Gather(t)
        \/ \E j \in Workers : WorkerLock(t, j)
        \/ \E j \in Workers : WorkerExecReturn(t, j)
        \/ \E j \in Workers : WorkerExecRaise(t, j)

SpecManual == InitManual /\ [][NextManual]_vars

\* One logical transaction entered with in_transaction(): its body gathers
\* statements, some of which fail, and enters a nested scope beside them.
InitTxn ==
    Start([t \in Tasks |-> IF t = 1 THEN "tx" ELSE "off"], [t \in Tasks |-> 0], 0)

NextTxn ==
    \E t \in Tasks :
        \/ EnsureConnection(t)
        \/ CreatePoolReturn(t)
        \/ OpenReturn(t)
        \/ PoolAcquire(t)
        \/ BeginReturn(t)
        \/ EnterNested(t)
        \/ Gather(t)
        \/ \E j \in Workers : WorkerLock(t, j)
        \/ \E j \in Workers : WorkerExecReturn(t, j)
        \/ \E j \in Workers : WorkerExecRaise(t, j)
        \/ ExitBody(t)
        \/ CommitReturn(t)
        \/ RollbackReturn(t)

SpecTxn == InitTxn /\ [][NextTxn]_vars

\* The event loop runs every task that can run, the driver answers every
\* statement, and asyncio.Lock serves its waiters in turn.
FairSpecTxn ==
    /\ SpecTxn
    /\ \A t \in Tasks : \A j \in Workers :
        /\ WF_vars(WorkerLock(t, j))
        /\ WF_vars(WorkerExecReturn(t, j) \/ WorkerExecRaise(t, j))

\* No scope and no statement runs on the client.
ScopesIdle ==
    /\ target = [t \in Tasks |-> 0]
    /\ createDone = 1
    /\ locked = {}
    /\ idle = Conns
    /\ connOf = [t \in Tasks |-> None]
    /\ acquired = [t \in Tasks |-> 0]
    /\ released = [t \in Tasks |-> 0]
    /\ depth = [t \in Tasks |-> 0]
    /\ wrapper = [t \in Tasks |-> [d \in Depths |-> TransactionWrapper(None)]]
    /\ call = [t \in Tasks |-> [by |-> "none", op |-> "none"]]
    /\ err = [t \in Tasks |-> "none"]
    /\ callErr = [t \in Tasks |-> "none"]
    /\ calls = [t \in Tasks |-> 0]
    /\ hcount = [t \in Tasks |-> 0]
    /\ worker = [t \in Tasks |-> [j \in Workers |-> IdleWorker]]
    /\ native = [c \in Conns |-> <<>>]
    /\ committed = 0

\* The pooled client stands by while calls are made beside it: its pool is
\* open and no task runs on it.
ClientIdle ==
    /\ kind = [t \in Tasks |-> "off"]
    /\ pc = [t \in Tasks |-> "done"]
    /\ pool = 1
    /\ poolsMade = 1
    /\ outcome = [t \in Tasks |-> "none"]
    /\ ScopesIdle

\* Concurrent calls of _close, _expire_connections and create_connection on a
\* client that has an open pool, or has none.
InitLife ==
    /\ \E kinds \in [Tasks -> {"close", "expire", "create"}] : kind = kinds
    /\ pc = [t \in Tasks |-> "start"]
    /\ outcome = [t \in Tasks |-> "none"]
    /\ \E has \in BOOLEAN :
        /\ pool = IF has THEN 1 ELSE None
        /\ poolsMade = IF has THEN 1 ELSE 0
        /\ poolState = [q \in Pools |->
                           IF has /\ q = 1
                           THEN [state |-> "open", template |-> TRUE, closes |-> 0]
                           ELSE NoPool]
    /\ template = TRUE
    /\ local = [t \in Tasks |-> None]
    /\ ScopesIdle
    /\ table = {}
    /\ caller = [n \in Callers |-> [pc |-> "off", created |-> FALSE, row |-> None, error |-> "none"]]
    /\ request = NoRequest
    /\ response = NoResponse

NextLife ==
    \E t \in Tasks :
        \/ CloseCall(t)
        \/ CloseReturn(t)
        \/ ExpireCall(t)
        \/ ExpireCloseReturn(t)
        \/ ExpireCreateReturn(t)
        \/ CreateConnectionCall(t)
        \/ CreateConnectionPoolReturn(t)
        \/ CreateConnectionOpenReturn(t)

SpecLife == InitLife /\ [][NextLife]_vars

\* NumCallers callers of get-or-create for one unique key that has no row,
\* each either started at once or told to wait for the caller before it.
InitGetOrCreate ==
    /\ ClientIdle
    /\ table = {}
    /\ \E start \in [Callers -> {"get", "queued"}] :
        caller = [n \in Callers |->
                    [pc |-> start[n], created |-> FALSE, row |-> None, error |-> "none"]]
    /\ request = NoRequest
    /\ response = NoResponse
    /\ LifeIdle

NextGetOrCreate ==
    \E n \in Callers :
        \/ GocStart(n)
        \/ GocGet(n)
        \/ GocCreate(n)
        \/ GocRefetch(n)

SpecGetOrCreate == InitGetOrCreate /\ [][NextGetOrCreate]_vars

\* One call of one operation: the driver raises one of its errors inside it
\* or nothing, and a cursor reports any row count from -1 (not available) up
\* and any row position or none.
InitCall ==
    /\ ClientIdle
    /\ table = {}
    /\ caller = [n \in Callers |-> [pc |-> "off", created |-> FALSE, row |-> None, error |-> "none"]]
    /\ \/ \E op \in Operations : \E exc \in DriverErrors \cup {"none"} :
            request = [op |-> op, exc |-> exc, rowcount |-> 0, rownumber |-> <<>>]
       \/ \E rc \in -1..MaxCount : \E rn \in {<<>>} \cup {<<k>> : k \in 0..MaxCount} :
            request = [op |-> "execute_query", exc |-> "none", rowcount |-> rc, rownumber |-> rn]
    /\ response = NoResponse
    /\ LifeIdle

NextCall == CallRaise \/ CallReturn

SpecCall == InitCall /\ [][NextCall]_vars

\* ------------------------------------------------------------ properties
AllDone == \A t \in Tasks : pc[t] = "done"
Scopes == {t \in Tasks : kind[t] = "tx"}
Ops == {t \in Tasks : kind[t] = "op"}

\* A step in which task t called commit() or rollback(): the body itself, or
\* the context's __aexit__ when the body ended.
CalledFinalize(t) ==
    \/ calls'[t] # calls[t] /\ call'[t].op \in {"commit", "rollback"}
    \/ /\ pc[t] = "body"
       /\ call'[t].by = "exit"
       /\ pc'[t] # "body" \/ depth'[t] # depth[t]

Refused(t) ==
    /\ call'[t].by = "body" => callErr'[t] = "TransactionManagementError"
    /\ call'[t].by = "exit" => err'[t] = "TransactionManagementError"
    /\ pc'[t] \notin {"commit_wait", "rollback_wait"}
    /\ native' = native
    /\ committed' = committed
    /\ wrapper'[t] = wrapper[t]

\* C1: commit() or rollback() called on a wrapper before begin(), or after a
\* commit() or rollback() that succeeded, fails with
\* TransactionManagementError; the driver is not called and the wrapper's
\* transaction handle and finalized flag stay as they were.
C1_FinalizeOnce ==
    [][\A t \in Tasks :
        /\ depth[t] >= 1
        /\ CalledFinalize(t)
        /\ W(t).transaction = None \/ W(t).finalized
        => Refused(t)]_vars

C1_Witness ==
    \E t \in Tasks :
        /\ kind[t] = "manual"
        /\ depth[t] = 1
        /\ W(t).finalized
        /\ call[t] = [by |-> "body", op |-> "rollback"]
        /\ callErr[t] = "TransactionManagementError"
        /\ pc[t] = "body"

\* C2: every in_transaction() scope of the pooled client ends with its
\* wrapper finalized: committed when the body ended normally, rolled back
\* when it raised, and with no transaction block of the scope left open.
C2_ScopeFinalized ==
    \A t \in Scopes :
        pc[t] = "done" /\ acquired[t] > 0 =>
            /\ wrapper[t][1].finalized
            /\ outcome[t] = "ok" => call[t].op = "commit"
            /\ outcome[t] = "BodyError" => call[t].op = "rollback"
            /\ \A c \in Conns : \A i \in 1..Len(native[c]) : native[c][i].h[1] # t

\* C3: a connection bound to a wrapper whose transaction has begun and whose
\* finalized flag is false is not in the pool's idle set.
C3_UnfinalizedNotIdle ==
    \A t \in Scopes : \A d \in Depths :
        LET w == wrapper[t][d]
        IN  /\ w.transaction # None
            /\ ~(pc[t] = "begin_wait" /\ depth[t] = d)
            /\ ~w.finalized
            => w.connection \notin idle

DoneRows(t) == Cardinality({j \in Workers : worker[t][j].pc = "done"})

RECURSIVE CommittedBy(_)
CommittedBy(ts) ==
    IF ts = {} THEN 0
    ELSE LET t == CHOOSE x \in ts : TRUE
         IN (IF pc[t] = "done" /\ outcome[t] = "ok" THEN DoneRows(t) ELSE 0)
            + CommittedBy(ts \ {t})

Inside(t, d) == {j \in Workers : worker[t][j].pc = "exec" /\ worker[t][j].d = d}

C5_Serialized ==
    \A t \in Tasks : \A d \in Depths :
        /\ Cardinality(Inside(t, d)) <= 1
        /\ WrapperLock(t, d) \in locked <=> Inside(t, d) # {}

\* C5: statements issued concurrently through one wrapper are serialized by
\* the wrapper's lock: at most one is between acquiring and releasing the
\* wrapper's connection, the lock is held exactly while one is, and every
\* statement queued on the lock gets to run and ends.
C5_LockSerializes ==
    /\ []C5_Serialized
    /\ \A t \in Tasks : \A j \in Workers :
        worker[t][j].pc = "lock_wait" ~> worker[t][j].pc \in {"done", "failed"}

C5_Witness ==
    \E t \in Tasks : \E i, j \in Workers :
        /\ worker[t][i].pc = "exec"
        /\ worker[t][j].pc = "lock_wait"
        /\ worker[t][i].d = worker[t][j].d

\* The operations in progress on connection c: a statement between its
\* cursor.execute and its return, and a begin, commit or rollback suspended
\* in the driver.
InProgress(c) ==
    {<<t, 0>> : t \in {u \in Tasks : /\ pc[u] \in {"begin_wait", "commit_wait", "rollback_wait"}
                                      /\ W(u).connection = c}}
    \cup {x \in Tasks \X Workers : worker[x[1]][x[2]].pc = "exec" /\ worker[x[1]][x[2]].conn = c}

\* C6: at most one operation is in progress on a transaction's connection at
\* any time, counting statements, begin, commit and rollback of the wrapper
\* and of the nested wrappers derived from it.
C6_OneOperationPerConnection ==
    \A c \in Conns : Cardinality(InProgress(c)) <= 1

\* C7: one logical transaction checks out one connection: every wrapper of
\* the scope, nested ones included, is bound to it, every statement runs on
\* it, and entering a nested transaction performs no pool acquire.
C7_OneConnection ==
    \A t \in Tasks : kind[t] \in {"tx", "manual"} =>
        /\ acquired[t] <= 1
        /\ pc[t] = "acquire" => depth[t] = 1
        /\ \A d \in 1..depth[t] :
            wrapper[t][d].connection = wrapper[t][1].connection
        /\ \A j \in Workers :
            worker[t][j].pc \in {"exec", "done", "failed"} =>
                worker[t][j].conn = wrapper[t][1].connection /\ worker[t][j].conn # None
        /\ connOf[t] # None => wrapper[t][1].connection = connOf[t]

C7_Witness ==
    \E t \in Tasks : \E j \in Workers :
        /\ kind[t] = "tx"
        /\ worker[t][j].pc = "exec"
        /\ worker[t][j].d = 2
        /\ worker[t][j].conn = connOf[t]
        /\ acquired[t] = 1

\* C8: a connection checked out by a top-level operation is returned to the
\* pool exactly once, whether the statement returned, raised or was
\* cancelled, and when every task has ended no connection is checked out.
C8_ReleasedOnce ==
    /\ \A t \in Ops :
        /\ released[t] <= acquired[t]
        /\ acquired[t] <= 1
        /\ pc[t] = "done" => released[t] = acquired[t] /\ connOf[t] = None
        /\ connOf[t] # None => connOf[t] \notin idle
    /\ AllDone /\ pool # None => idle = Conns

C8_Witness ==
    /\ AllDone
    /\ \E t \in Ops : outcome[t] = "cancelled" /\ released[t] = 1
    /\ \E t \in Ops : outcome[t] = "raised" /\ released[t] = 1

Past(t) == pc[t] \notin {"ensure", "create_pool", "open_wait"}

\* C9: tasks that use the client for the first time concurrently create the
\* pool once: one pool object is constructed, create_connection completes
\* once, no task fails with "Connection pool already created", and every
\* task goes on with that pool.
C9_PoolCreatedOnce ==
    /\ poolsMade <= 1
    /\ createDone <= 1
    /\ \A t \in Tasks :
        /\ outcome[t] # "RuntimeError"
        /\ Past(t) => pool = 1 /\ createDone = 1

C9_Witness ==
    /\ AllDone
    /\ \A t \in Tasks : outcome[t] = "ok"
    /\ Ops # {} /\ Scopes # {}
    /\ poolsMade = 1

Holders(c) == {t \in Tasks : connOf[t] = c}

C10_OneHolder ==
    \A c \in Conns :
        /\ Cardinality(Holders(c)) <= 1
        /\ c \in idle => Holders(c) = {}

C10_GrantedFromIdle ==
    \A t \in Tasks :
        connOf'[t] # connOf[t] /\ connOf'[t] # None =>
            /\ connOf'[t] \in idle
            /\ \A u \in Tasks : connOf[u] # connOf'[t]

\* C10: a connection has at most one holder; an acquire is granted only a
\* connection that is idle, so with every connection checked out an acquire
\* waits for a release or fails with the timeout and is granted nothing.
C10_NoSharedCheckout ==
    /\ []C10_OneHolder
    /\ [][C10_GrantedFromIdle]_vars

C10_Witness ==
    \E t \in Tasks :
        /\ pc[t] = "done" /\ outcome[t] = "PoolTimeout"
        /\ idle = {}
        /\ Cardinality({v \in Tasks : connOf[v] # None}) = MaxSize

\* A scope that ended holds nothing: it acquired one connection and gave it
\* back, or its wait for the pool timed out before it was given one.
ScopeEnded(t) ==
    /\ pc[t] = "done"
    /\ connOf[t] = None
    /\ IF outcome[t] = "PoolTimeout"
       THEN acquired[t] = 0 /\ released[t] = 0
       ELSE acquired[t] = 1 /\ released[t] = 1

\* C11 as stated: every scope eventually acquires a connection, finishes and
\* returns it.
C11_EveryScopeAcquires ==
    \A t \in Tasks : <>(pc[t] = "done" /\ acquired[t] = 1 /\ released[t] = 1)

\* C11: under fair scheduling every in_transaction() scope eventually ends,
\* having acquired one connection and returned it or having timed out waiting
\* for the pool without one; when all have ended every connection is idle.
C11_EveryScopeEnds ==
    /\ \A t \in Tasks : <>[]ScopeEnded(t)
    /\ <>[](AllDone /\ idle = Conns)

C11_Witness ==
    /\ AllDone
    /\ idle = Conns
    /\ \E t \in Tasks : outcome[t] = "PoolTimeout" /\ acquired[t] = 0
    /\ \E t \in Tasks : outcome[t] = "ok" /\ released[t] = 1 /\ DoneRows(t) = NumWorkers

GocDone == \A n \in Callers : caller[n].pc \in {"done", "failed"}

\* C12: of the callers of get-or-create for one unique key with no prior row,
\* run one after another or interleaved, none fails, the key never has two
\* rows, and when all have returned exactly one has created = TRUE and all
\* hold the same row.
C12_GetOrCreate ==
    /\ Cardinality(table) <= 1
    /\ \A n \in Callers : caller[n].pc # "failed"
    /\ \A n \in Callers : caller[n].pc = "done" => caller[n].row \in table
    /\ Cardinality({n \in Callers : caller[n].created}) <= 1
    /\ GocDone =>
        /\ Cardinality({n \in Callers : caller[n].created}) = 1
        /\ \A m, n \in Callers : caller[m].row = caller[n].row

C12_Witness ==
    /\ \E n \in Callers : caller[n].pc = "done" /\ caller[n].created
    /\ \E n \in Callers : caller[n].pc = "refetch"
    /\ \E n \in Callers : caller[n].pc = "done" /\ ~caller[n].created /\ caller[n].row \in table

\* The taxonomy error of each category of driver error the translator knows.
Taxonomy(exc) ==
    CASE exc = "psycopg.errors.SyntaxErrorOrAccessRuleViolation" -> "exceptions.OperationalError"
      [] exc = "psycopg.errors.DataException" -> "exceptions.OperationalError"
      [] exc = "psycopg.errors.UndefinedTable" -> "exceptions.OperationalError"
      [] exc = "psycopg.errors.IntegrityError" -> "exceptions.IntegrityError"
      [] exc = "psycopg.errors.InvalidTransactionState" -> "exceptions.TransactionManagementError"
      [] exc = "psycopg.errors.InFailedSqlTransaction" -> "exceptions.TransactionManagementError"

KnownCategories ==
    {"psycopg.errors.SyntaxErrorOrAccessRuleViolation", "psycopg.errors.DataException",
     "psycopg.errors.UndefinedTable", "psycopg.errors.IntegrityError",
     "psycopg.errors.InvalidTransactionState", "psycopg.errors.InFailedSqlTransaction"}

\* A call that went through the translator with the exception the driver
\* raised: a decorated body whose own except clause did not take it.
ThroughTranslator ==
    /\ response.state # "pending"
    /\ Body(request.op) \in Decorated
    /\ Caught(Body(request.op), request.exc) = request.exc

\* C13: the translator turns each driver error of a known category into the
\* one taxonomy error of that category, lets every other exception through
\* unchanged, and returns the wrapped function's result unchanged when nothing
\* is raised.
C13_TranslatorMapping ==
    ThroughTranslator =>
        /\ request.exc \in KnownCategories =>
                response.state = "raised" /\ response.raised = Taxonomy(request.exc)
        /\ request.exc \in DriverErrors \ KnownCategories =>
                response.state = "raised" /\ response.raised = request.exc
        /\ request.exc = "none" =>
                /\ response.state = "returned"
                /\ response.raised = "none"
                /\ response.value =
                      IF request.op = "execute_query"
                      THEN <<execute_query_rowcount(request.rowcount, request.rownumber)>>
                      ELSE <<>>

C13_Witness ==
    /\ response.state = "raised"
    /\ request.op = "execute_many"
    /\ request.exc = "psycopg.errors.OtherError"
    /\ response.raised = "psycopg.errors.OtherError"

\* C14: a driver error of a known category raised inside any operation of the
\* client or of the transaction wrapper reaches the caller as the taxonomy
\* error of its category.
C14_EveryOperationTranslates ==
    response.state = "raised" /\ request.exc \in KnownCategories =>
        response.raised = Taxonomy(request.exc)

\* C16: execute_query returns the driver's row count when it is available
\* (not negative), else the cursor's row position when there is one, else
\* zero, and never a negative number.
C16_RowCountFallback ==
    response.state = "returned" /\ request.op = "execute_query" =>
        /\ response.value[1] =
              IF request.rowcount >= 0 THEN request.rowcount
              ELSE IF request.rownumber # <<>> THEN request.rownumber[1]
              ELSE 0
        /\ response.value[1] >= 0

\* C15: a task whose wait for the pool timed out, in a top-level operation or
\* on entering in_transaction(), ends with DBConnectionError.
C15_PoolTimeoutIsDBConnectionError ==
    \A t \in Tasks :
        pc[t] = "done" /\ acquired[t] = 0 /\ kind[t] \in {"op", "tx"} =>
            outcome[t] = "exceptions.DBConnectionError"

\* A step in which the body of task t called begin() on its current wrapper.
CalledBegin(t) == calls'[t] # calls[t] /\ call'[t].op = "begin"

\* C17: begin() called on a wrapper whose finalized flag is true fails, opens
\* no transaction block on the connection and leaves the wrapper's
\* transaction handle and finalized flag as they were.
C17_NoBeginAfterFinalized ==
    [][\A t \in Tasks :
        depth[t] >= 1 /\ W(t).finalized /\ CalledBegin(t) =>
            /\ pc'[t] # "begin_wait"
            /\ callErr'[t] = "TransactionManagementError"
            /\ wrapper'[t] = wrapper[t]
            /\ native' = native]_vars

\* Task t is inside _expire_connections, suspended at one of its awaits.
ExpireSuspended(t) == pc[t] \in {"expire_close_wait", "expire_pool_wait"}

\* C18: while _expire_connections is suspended, the pool reference read by
\* anything else running on the client designates an open pool, never one
\* that is closing or closed.
C18_ExpireSwapsAtomically ==
    (\E t \in Tasks : ExpireSuspended(t)) /\ pool # None =>
        poolState[pool].state \notin {"closing", "closed"}

\* _close of task t has set the reference to None and awaits, or has
\* awaited, the close of the pool it took.
ClosePassed(t) == kind[t] = "close" /\ pc[t] \in {"close_wait", "done"} /\ local[t] # None

\* C19: _close sets the pool reference to None before it closes the pool.
\* From then on the reference never designates a pool that _close is
\* closing or has closed, and it is None unless another call
\* (_expire_connections, create_connection) has assigned a pool of its own;
\* no pool is closed by _close twice.
C19_CloseNullsReferenceFirst ==
    /\ \A t \in Tasks : ClosePassed(t) => pool # local[t]
    /\ \A q \in Pools : poolState[q].closes <= 1
    /\ (\A t \in Tasks : kind[t] = "close") /\ (\E t \in Tasks : ClosePassed(t)) =>
           pool = None

\* A _close is suspended in pool.close(10), the reference is None, and a
\* second _close made meanwhile has returned without closing anything.
C19_Witness ==
    \E t, u \in Tasks :
        /\ t # u
        /\ ClosePassed(t) /\ pc[t] = "close_wait"
        /\ poolState[local[t]].state = "closing"
        /\ pool = None
        /\ kind[u] = "close" /\ pc[u] = "done" /\ local[u] = None

\* create_connection of task t ended with DBConnectionError.
CreateFailed(t) ==
    kind[t] = "create" /\ pc[t] = "done" /\ outcome[t] = "exceptions.DBConnectionError"

\* C20: a create_connection that failed with DBConnectionError leaves the
\* client without the pool it tried to open: the pool reference does not
\* designate that pool, so the pool-already-created guard does not reject a
\* later create_connection because of it.
C20_FailedCreateLeavesNoPool ==
    \A t \in Tasks : CreateFailed(t) => pool # local[t]

====
